---- MODULE Spec2Model ----
(* A model of app.py: the sqlite store (users, orders, products), the        *)
(* authentication service, the singleton Cart, the order workflow and the    *)
(* Flask route handlers that drive them.                                     *)
(*                                                                           *)
(* Python objects that are shared by reference (the dict a Cart holds in     *)
(* `items`, which Order.__init__ stores without copying) live in `heap`, a   *)
(* map from addresses to dict contents; a dict is a sequence of entries in   *)
(* insertion order, as Python dicts are.  An Optional value is a sequence of *)
(* length 0 (None / absent) or 1.                                            *)
EXTENDS Integers, Sequences, FiniteSets, TLC

\* ------------------------------------------------------------------ bounds
\* Number of requests (or service calls) a run of the model makes.
MaxSteps == 5
\* Number of request threads in the concurrent-registration specification.
NumThreads == 2

\* ------------------------------------------------------------------ inputs
Usernames == {"alice", "bob"}
RegisterPasswords == {"pw1"}
LoginPasswords == {"pw1", "pw2"}
FormProductNames == {"Laptop", "Shirt", "Unicorn"}
PaymentMethods == {"card"}
\* arguments of calls made on the services directly
Quantities == {1, 2}
CallProductNames == {"Laptop", "Shirt"}
Gateways == {"MockPaymentGateway", "DecliningGateway"}
OrderUserIds == {1, 3}
OrderTotals == {30}
Threads == 1..NumThreads

\* ------------------------------------------------------------ seed catalog
\* The products table after startup: rows (name, price, category) in the
\* order the seeding loop inserts them.  Prices are whole dollars.
SeedProducts ==
    << [name |-> "Laptop", price |-> 1200, category |-> "Electronics"],
       [name |-> "Smartphone", price |-> 800, category |-> "Electronics"],
       [name |-> "Tablet", price |-> 500, category |-> "Electronics"],
       [name |-> "Refrigerator", price |-> 1500, category |-> "Home Appliances"],
       [name |-> "Microwave", price |-> 200, category |-> "Home Appliances"],
       [name |-> "Washing Machine", price |-> 1000, category |-> "Home Appliances"],
       [name |-> "The Hobbit", price |-> 40, category |-> "Books"],
       [name |-> "Train to Pakistan", price |-> 35, category |-> "Books"],
       [name |-> "Harry Potter and the Deathly Hallows", price |-> 55, category |-> "Books"],
       [name |-> "Shirt", price |-> 30, category |-> "Clothing"],
       [name |-> "Jeans", price |-> 50, category |-> "Clothing"],
       [name |-> "Jacket", price |-> 100, category |-> "Clothing"] >>

\* ------------------------------------------------------------------- state
VARIABLES
    users,          \* users table: rows [id, username, password], by insertion
    userSeq,        \* AUTOINCREMENT counter of users.id
    orders,         \* orders table: rows [order_id, user_id, total_amount,
                    \*                     payment_method, summary]
    orderSeq,       \* AUTOINCREMENT counter of orders.order_id
    session,        \* the Flask session: <<>> or <<[user_id, username]>>
    Cart_instance,  \* Cart._instance: 0 (None) or the id of a Cart object
    carts,          \* the Cart objects ever constructed: id -> [items: address]
    heap,           \* address -> dict contents (the dict objects that are alive)
    userObjs,       \* the User objects constructed so far
    order,          \* the Order last returned by create_order: <<>> or <<o>>
    last,           \* the call last made and what it returned or raised
    atCreate,       \* history: the cart's lines when `order` was created
    addedSum,       \* history: per product name, the quantities passed to
                    \* add_item since that product last had no line
    lastAdder,      \* history: user_id of the session of the last add_to_cart
    thread,         \* concurrent registration: each thread's position
    steps           \* the number of requests or calls made so far

vars == << users, userSeq, orders, orderSeq, session, Cart_instance, carts,
           heap, userObjs, order, last, atCreate, addedSum, lastAdder, thread,
           steps >>

\* -------------------------------------------------------------- dict model
EmptyDict == << >>

Keys(d) == { d[i].key : i \in 1..Len(d) }

\* The entries of d stored under key k (a Python dict has at most one).
Entries(d, k) == { i \in 1..Len(d) : d[i].key = k }

Lookup(d, k) == d[CHOOSE i \in 1..Len(d) : d[i].key = k]

RECURSIVE SumSeq(_)
SumSeq(s) == IF s = << >> THEN 0 ELSE Head(s) + SumSeq(Tail(s))

RECURSIVE SelectOut(_, _)
SelectOut(d, k) ==
    IF d = << >> THEN << >>
    ELSE IF Head(d).key = k THEN SelectOut(Tail(d), k)
    ELSE << Head(d) >> \o SelectOut(Tail(d), k)

\* ------------------------------------------------------------- the store
\* Database.fetch_user: the row with that username, or none.
Database_fetch_user(tbl, username) ==
    LET hits == { i \in 1..Len(tbl) : tbl[i].username = username }
    IN  IF hits = {} THEN << >>
        ELSE << tbl[CHOOSE i \in hits : \A j \in hits : i <= j] >>

\* insert_user as it would be were the username column not UNIQUE.
Database_insert_user_not_unique(tbl, seq, username, password) ==
    [raised |-> "",
     users |-> Append(tbl, [id |-> seq + 1, username |-> username,
                            password |-> password]),
     userSeq |-> seq + 1]

\* Database.insert_user: INSERT INTO users; the column is declared UNIQUE, so
\* the statement raises sqlite3.IntegrityError when the username is present.
Database_insert_user(tbl, seq, username, password) ==
    IF \E i \in 1..Len(tbl) : tbl[i].username = username
    THEN [raised |-> "IntegrityError", users |-> tbl, userSeq |-> seq]
    ELSE [raised |-> "",
          users |-> Append(tbl, [id |-> seq + 1, username |-> username,
                                 password |-> password]),
          userSeq |-> seq + 1]

\* Database.insert_order: INSERT INTO orders.  The connection never issues
\* PRAGMA foreign_keys = ON, so sqlite does not check user_id against users.
Database_insert_order(tbl, seq, user_id, total_amount, payment_method, summary) ==
    [orders |-> Append(tbl, [order_id |-> seq + 1, user_id |-> user_id,
                             total_amount |-> total_amount,
                             payment_method |-> payment_method,
                             summary |-> summary]),
     orderSeq |-> seq + 1]

\* Database.fetch_orders_by_user_id
Database_fetch_orders_by_user_id(tbl, user_id) ==
    SelectSeq(tbl, LAMBDA r : r.user_id = user_id)

\* Database.fetch_product_by_name / Catalog.get_product: the first row.
Catalog_get_product(name) ==
    LET hits == { i \in 1..Len(SeedProducts) : SeedProducts[i].name = name }
    IN  IF hits = {} THEN << >>
        ELSE << SeedProducts[CHOOSE i \in hits : \A j \in hits : i <= j] >>

\* ---------------------------------------------------------------- objects
\* A fresh address / object id: the least one not in use.
Alloc(f) == CHOOSE a \in 1..(Cardinality(DOMAIN f) + 1) : a \notin DOMAIN f

\* get_instance as it would be were a Cart built on every call.
Cart_get_instance_new(inst, cs, h) ==
    LET c == Alloc(cs)
        a == Alloc(h)
    IN  [instance |-> c,
         carts |-> cs @@ (c :> [items |-> a]),
         heap |-> h @@ (a :> EmptyDict)]

\* Cart.get_instance (with Cart.__init__): constructs the Cart, with a new
\* empty dict as its items, only while Cart._instance is None.
Cart_get_instance(inst, cs, h) ==
    IF inst = 0
    THEN LET c == Alloc(cs)
             a == Alloc(h)
         IN  [instance |-> c,
              carts |-> cs @@ (c :> [items |-> a]),
              heap |-> h @@ (a :> EmptyDict)]
    ELSE [instance |-> inst, carts |-> cs, heap |-> h]

\* User.__init__, given a users row: the new User object, and the Cart
\* class state after its Cart.get_instance() call.
User(inst, cs, h, row) ==
    LET g == Cart_get_instance(inst, cs, h)
    IN  [user |-> [user_id |-> row.id, username |-> row.username,
                   password |-> row.password, cart |-> g.instance],
         instance |-> g.instance, carts |-> g.carts, heap |-> g.heap]

\* Cart.get_items: the dict object itself, not a copy.
Cart_get_items(cs, c) == cs[c].items

\* add_item as it would be with `=` in place of `+=`.
Cart_add_item_assign(d, product, quantity) ==
    IF product.name \in Keys(d)
    THEN [i \in 1..Len(d) |->
            IF d[i].key = product.name
            THEN [d[i] EXCEPT !.quantity = quantity]
            ELSE d[i]]
    ELSE Append(d, [key |-> product.name, product |-> product,
                    quantity |-> quantity])

\* Cart.add_item, on the contents d of self.items.
Cart_add_item(d, product, quantity) ==
    IF product.name \in Keys(d)
    THEN [i \in 1..Len(d) |->
            IF d[i].key = product.name
            THEN [d[i] EXCEPT !.quantity = @ + quantity]
            ELSE d[i]]
    ELSE Append(d, [key |-> product.name, product |-> product,
                    quantity |-> quantity])

\* Cart.remove_item, on the contents d of self.items.
Cart_remove_item(d, product) ==
    IF product.name \in Keys(d) THEN SelectOut(d, product.name) ELSE d

\* Cart.clear: self.items is bound to a new empty dict; the old dict object
\* is left as it is for whoever else holds it.
Cart_clear(cs, h, c) ==
    LET a == Alloc(h)
    IN  [carts |-> [cs EXCEPT ![c].items = a],
         heap |-> h @@ (a :> EmptyDict)]

\* Order.__init__: items is the very dict the user's cart holds.
Order(cs, user) == [user |-> user, items |-> Cart_get_items(cs, user.cart)]

\* create_order as it would be without the empty-cart check.
OrderProcessor_create_order_unchecked(cs, h, user) ==
    [raised |-> "", order |-> << Order(cs, user) >>]

\* OrderProcessor.create_order: raises ValueError on an empty cart.
OrderProcessor_create_order(cs, h, user) ==
    IF Len(h[Cart_get_items(cs, user.cart)]) = 0
    THEN [raised |-> "Cart is empty.", order |-> << >>]
    ELSE [raised |-> "", order |-> << Order(cs, user) >>]

\* confirm_order as it would be were the cart not cleared.
OrderProcessor_confirm_order_no_clear(cs, h, user) == [carts |-> cs, heap |-> h]

\* OrderProcessor.confirm_order
OrderProcessor_confirm_order(cs, h, user) == Cart_clear(cs, h, user.cart)

\* PaymentGateway.process_payment.  MockPaymentGateway approves every amount;
\* "DecliningGateway" stands for an implementation of the abstract class that
\* declines.
process_payment(gateway, amount) == gateway = "MockPaymentGateway"

\* sum(item['product'].price * item['quantity'] for item in d.values())
TotalOf(d) == SumSeq([i \in 1..Len(d) |-> d[i].product.price * d[i].quantity])

\* PaymentProcessor.process_order_payment: (approved, total_amount)
PaymentProcessor_process_order_payment(h, o, gateway) ==
    LET total_amount == TotalOf(h[o.items])
    IN  [approved |-> process_payment(gateway, total_amount),
         total_amount |-> total_amount]

\* The summary text of checkout: one line per item of the order, in the
\* dict's order, then the total.
SummaryOf(d, total_amount) ==
    [i \in 1..Len(d) |-> << d[i].quantity, d[i].product.name, d[i].product.price >>]
        \o << << "Total Amount", total_amount >> >>

\* Dict objects nothing refers to any more are freed.
Collect(h, cs, ord) ==
    LET roots == { cs[c].items : c \in DOMAIN cs } \cup { ord[i].items : i \in 1..Len(ord) }
    IN  [a \in roots |-> h[a]]

\* register_user as it would be without the existence check.
AuthService_register_user_unchecked(tbl, seq, username, password) ==
    LET ins == Database_insert_user(tbl, seq, username, password)
    IN  [raised |-> ins.raised, users |-> ins.users, userSeq |-> ins.userSeq,
         user_data |-> IF ins.raised = "" THEN Database_fetch_user(ins.users, username)
                       ELSE << >>]

\* AuthService.register_user
AuthService_register_user(tbl, seq, username, password) ==
    IF Database_fetch_user(tbl, username) # << >>
    THEN [raised |-> "User already exists.", users |-> tbl, userSeq |-> seq,
          user_data |-> << >>]
    ELSE LET ins == Database_insert_user(tbl, seq, username, password)
         IN  [raised |-> ins.raised, users |-> ins.users, userSeq |-> ins.userSeq,
              user_data |-> IF ins.raised = "" THEN Database_fetch_user(ins.users, username)
                            ELSE << >>]

\* AuthService.login
AuthService_login(tbl, username, password) ==
    LET user_data == Database_fetch_user(tbl, username)
    IN  IF user_data # << >> /\ user_data[1].password = password
        THEN [raised |-> "", user_data |-> user_data]
        ELSE [raised |-> "Invalid username or password.", user_data |-> << >>]

\* int(request.form['quantity']): the form's text as an integer, or nothing
\* where int() raises ValueError.
int(text) ==
    CASE text = "-1" -> << -1 >>
      [] text = "0" -> << 0 >>
      [] text = "1" -> << 1 >>
      [] text = "2" -> << 2 >>
      [] OTHER -> << >>

\* ------------------------------------------------------------ bookkeeping
ProductNames == { SeedProducts[i].name : i \in 1..Len(SeedProducts) }

\* The record of a call: its name, arguments and outcome.
Call(op) ==
    [op |-> op, raised |-> "", approved |-> FALSE, total |-> 0,
     name |-> "", qty |-> 0, username |-> "", user_id |-> 0]

\* The lines of Cart object c.
ItemsOf(cs, h, c) == h[Cart_get_items(cs, c)]

QuantityOf(d, k) == IF k \in Keys(d) THEN Lookup(d, k).quantity ELSE 0

\* One more request or call is made, while the run has some left.
Tick == steps < MaxSteps /\ steps' = steps + 1

Init ==
    /\ users = << >>
    /\ userSeq = 0
    /\ orders = << >>
    /\ orderSeq = 0
    /\ session = << >>
    /\ Cart_instance = 0
    /\ carts = << >>
    /\ heap = << >>
    /\ userObjs = {}
    /\ order = << >>
    /\ last = Call("start")
    /\ atCreate = << >>
    /\ addedSum = [n \in ProductNames |-> 0]
    /\ lastAdder = 0
    /\ thread = [t \in Threads |-> [pc |-> "idle", username |-> "", password |-> "",
                                    raised |-> ""]]
    /\ steps = 0

\* ----------------------------------------- calls on the services (library)
\* auth_service.register_user(username, password)
Call_register_user(username, password) ==
    /\ Tick
    /\ LET r == AuthService_register_user(users, userSeq, username, password)
       IN  /\ users' = r.users
           /\ userSeq' = r.userSeq
           /\ IF r.raised = ""
              THEN LET u == User(Cart_instance, carts, heap, r.user_data[1])
                   IN  /\ Cart_instance' = u.instance
                       /\ carts' = u.carts
                       /\ heap' = u.heap
                       /\ userObjs' = userObjs \cup {u.user}
                       /\ last' = [Call("register_user") EXCEPT
                                      !.username = username, !.user_id = u.user.user_id]
              ELSE /\ UNCHANGED << Cart_instance, carts, heap, userObjs >>
                   /\ last' = [Call("register_user") EXCEPT
                                  !.username = username, !.raised = r.raised]
           /\ UNCHANGED << orders, orderSeq, session, order, atCreate, addedSum,
                           lastAdder, thread >>

\* auth_service.login(username, password)
Call_login(username, password) ==
    /\ Tick
    /\ LET r == AuthService_login(users, username, password)
       IN  /\ IF r.raised = ""
              THEN LET u == User(Cart_instance, carts, heap, r.user_data[1])
                   IN  /\ Cart_instance' = u.instance
                       /\ carts' = u.carts
                       /\ heap' = u.heap
                       /\ userObjs' = userObjs \cup {u.user}
                       /\ last' = [Call("login") EXCEPT
                                      !.username = username, !.user_id = u.user.user_id]
              ELSE /\ UNCHANGED << Cart_instance, carts, heap, userObjs >>
                   /\ last' = [Call("login") EXCEPT
                                  !.username = username, !.raised = r.raised]
           /\ UNCHANGED << users, userSeq, orders, orderSeq, session, order, atCreate,
                           addedSum, lastAdder, thread >>

\* user.cart.add_item(product, quantity)
Call_add_item(user, product, quantity) ==
    /\ Tick
    /\ LET a == Cart_get_items(carts, user.cart)
       IN  /\ heap' = [heap EXCEPT ![a] = Cart_add_item(@, product, quantity)]
           /\ addedSum' = [addedSum EXCEPT ![product.name] = @ + quantity]
           /\ last' = [Call("add_item") EXCEPT !.name = product.name, !.qty = quantity]
           /\ UNCHANGED << users, userSeq, orders, orderSeq, session, Cart_instance,
                           carts, userObjs, order, atCreate, lastAdder, thread >>

\* user.cart.remove_item(product)
Call_remove_item(user, product) ==
    /\ Tick
    /\ LET a == Cart_get_items(carts, user.cart)
       IN  /\ heap' = [heap EXCEPT ![a] = Cart_remove_item(@, product)]
           /\ addedSum' = [addedSum EXCEPT ![product.name] = 0]
           /\ last' = [Call("remove_item") EXCEPT !.name = product.name]
           /\ UNCHANGED << users, userSeq, orders, orderSeq, session, Cart_instance,
                           carts, userObjs, order, atCreate, lastAdder, thread >>

\* user.cart.clear()
Call_clear(user) ==
    /\ Tick
    /\ LET r == Cart_clear(carts, heap, user.cart)
       IN  /\ carts' = r.carts
           /\ heap' = Collect(r.heap, r.carts, order)
           /\ addedSum' = [n \in ProductNames |-> 0]
           /\ last' = Call("clear")
           /\ UNCHANGED << users, userSeq, orders, orderSeq, session, Cart_instance,
                           userObjs, order, atCreate, lastAdder, thread >>

\* OrderProcessor.create_order(user)
Call_create_order(user) ==
    /\ Tick
    /\ LET r == OrderProcessor_create_order(carts, heap, user)
       IN  /\ IF r.raised = ""
              THEN /\ order' = r.order
                   /\ atCreate' = ItemsOf(carts, heap, user.cart)
                   /\ heap' = Collect(heap, carts, r.order)
                   /\ last' = [Call("create_order") EXCEPT !.user_id = user.user_id]
              ELSE /\ UNCHANGED << order, atCreate, heap >>
                   /\ last' = [Call("create_order") EXCEPT
                                  !.user_id = user.user_id, !.raised = r.raised]
           /\ UNCHANGED << users, userSeq, orders, orderSeq, session, Cart_instance,
                           carts, userObjs, addedSum, lastAdder, thread >>

\* PaymentProcessor(gateway).process_order_payment(order, payment_method)
Call_process_order_payment(payment_method, gateway) ==
    /\ Tick
    /\ /\ order # << >>
       /\ LET r == PaymentProcessor_process_order_payment(heap, order[1], gateway)
          IN  last' = [Call("process_order_payment") EXCEPT
                          !.approved = r.approved, !.total = r.total_amount,
                          !.user_id = order[1].user.user_id]
       /\ UNCHANGED << users, userSeq, orders, orderSeq, session, Cart_instance, carts,
                       heap, userObjs, order, atCreate, addedSum, lastAdder, thread >>

\* OrderProcessor.confirm_order(user)
Call_confirm_order(user) ==
    /\ Tick
    /\ LET r == OrderProcessor_confirm_order(carts, heap, user)
       IN  /\ carts' = r.carts
           /\ heap' = Collect(r.heap, r.carts, order)
           /\ addedSum' = [n \in ProductNames |-> 0]
           /\ last' = [Call("confirm_order") EXCEPT !.user_id = user.user_id]
           /\ UNCHANGED << users, userSeq, orders, orderSeq, session, Cart_instance,
                           userObjs, order, atCreate, lastAdder, thread >>

\* db.insert_order(user_id, total_amount, payment_method, summary)
Call_insert_order(user_id, total_amount, payment_method, summary) ==
    /\ Tick
    /\ /\ LET r == Database_insert_order(orders, orderSeq, user_id, total_amount,
                                         payment_method, summary)
          IN  /\ orders' = r.orders
              /\ orderSeq' = r.orderSeq
       /\ last' = [Call("insert_order") EXCEPT !.user_id = user_id, !.total = total_amount]
       /\ UNCHANGED << users, userSeq, session, Cart_instance, carts, heap, userObjs,
                       order, atCreate, addedSum, lastAdder, thread >>

\* ------------------------------------------------------- the route handlers
LoggedIn == session # << >>

\* What every handler past the login check starts with:
\*   user = auth_service.db.fetch_user(session['username'])
\*   user_obj = User(user['id'], user['username'], user['password'])
SessionUser == User(Cart_instance, carts, heap,
                    Database_fetch_user(users, session[1].username)[1])

\* POST /register
register(username, password) ==
    /\ Tick
    /\ LET r == AuthService_register_user(users, userSeq, username, password)
       IN  /\ users' = r.users
           /\ userSeq' = r.userSeq
           /\ IF r.raised = ""
              THEN LET u == User(Cart_instance, carts, heap, r.user_data[1])
                   IN  /\ Cart_instance' = u.instance
                       /\ carts' = u.carts
                       /\ heap' = u.heap
                       /\ userObjs' = userObjs \cup {u.user}
                       /\ session' = << [user_id |-> u.user.user_id,
                                         username |-> u.user.username] >>
                       /\ last' = [Call("register") EXCEPT
                                      !.username = username, !.user_id = u.user.user_id]
              ELSE /\ UNCHANGED << Cart_instance, carts, heap, userObjs, session >>
                   /\ last' = [Call("register") EXCEPT
                                  !.username = username, !.raised = r.raised]
           /\ UNCHANGED << orders, orderSeq, order, atCreate, addedSum, lastAdder,
                           thread >>

\* POST /login
login(username, password) ==
    /\ Tick
    /\ LET r == AuthService_login(users, username, password)
       IN  /\ IF r.raised = ""
              THEN LET u == User(Cart_instance, carts, heap, r.user_data[1])
                   IN  /\ Cart_instance' = u.instance
                       /\ carts' = u.carts
                       /\ heap' = u.heap
                       /\ userObjs' = userObjs \cup {u.user}
                       /\ session' = << [user_id |-> u.user.user_id,
                                         username |-> u.user.username] >>
                       /\ last' = [Call("login") EXCEPT
                                      !.username = username, !.user_id = u.user.user_id]
              ELSE /\ UNCHANGED << Cart_instance, carts, heap, userObjs, session >>
                   /\ last' = [Call("login") EXCEPT
                                  !.username = username, !.raised = r.raised]
           /\ UNCHANGED << users, userSeq, orders, orderSeq, order, atCreate, addedSum,
                           lastAdder, thread >>

\* GET /logout
logout ==
    /\ Tick
    /\ /\ session' = << >>
       /\ last' = Call("logout")
       /\ UNCHANGED << users, userSeq, orders, orderSeq, Cart_instance, carts, heap,
                       userObjs, order, atCreate, addedSum, lastAdder, thread >>

\* POST /add_to_cart
add_to_cart(product_name, quantity_text) ==
    /\ Tick
    /\ IF ~LoggedIn
       THEN /\ last' = [Call("add_to_cart") EXCEPT !.raised = "Please log in first."]
            /\ UNCHANGED << users, userSeq, orders, orderSeq, session, Cart_instance,
                            carts, heap, userObjs, order, atCreate, addedSum, lastAdder,
                            thread >>
       ELSE IF int(quantity_text) = << >>
       THEN /\ last' = [Call("add_to_cart") EXCEPT !.raised = "ValueError"]
            /\ UNCHANGED << users, userSeq, orders, orderSeq, session, Cart_instance,
                            carts, heap, userObjs, order, atCreate, addedSum, lastAdder,
                            thread >>
       ELSE IF Catalog_get_product(product_name) = << >>
       THEN /\ last' = [Call("add_to_cart") EXCEPT !.raised = "Product not found."]
            /\ UNCHANGED << users, userSeq, orders, orderSeq, session, Cart_instance,
                            carts, heap, userObjs, order, atCreate, addedSum, lastAdder,
                            thread >>
       ELSE LET quantity == int(quantity_text)[1]
                product == Catalog_get_product(product_name)[1]
                u == SessionUser
                a == Cart_get_items(u.carts, u.user.cart)
            IN  /\ Cart_instance' = u.instance
                /\ carts' = u.carts
                /\ userObjs' = userObjs \cup {u.user}
                /\ heap' = [u.heap EXCEPT ![a] = Cart_add_item(@, product, quantity)]
                /\ addedSum' = [addedSum EXCEPT ![product.name] = @ + quantity]
                /\ lastAdder' = u.user.user_id
                /\ last' = [Call("add_to_cart") EXCEPT
                               !.name = product.name, !.qty = quantity,
                               !.user_id = u.user.user_id]
                /\ UNCHANGED << users, userSeq, orders, orderSeq, session, order,
                                atCreate, thread >>

\* GET /cart
view_cart ==
    /\ Tick
    /\ IF ~LoggedIn
       THEN /\ last' = [Call("view_cart") EXCEPT !.raised = "Please log in first."]
            /\ UNCHANGED << users, userSeq, orders, orderSeq, session, Cart_instance,
                            carts, heap, userObjs, order, atCreate, addedSum, lastAdder,
                            thread >>
       ELSE LET u == SessionUser
            IN  /\ Cart_instance' = u.instance
                /\ carts' = u.carts
                /\ heap' = u.heap
                /\ userObjs' = userObjs \cup {u.user}
                /\ last' = [Call("view_cart") EXCEPT !.user_id = u.user.user_id]
                /\ UNCHANGED << users, userSeq, orders, orderSeq, session, order,
                                atCreate, addedSum, lastAdder, thread >>

\* The POST branch of checkout as it would be were the order confirmed
\* before the payment's outcome is looked at.
checkout_post_confirm_first(cs, h, tbl, seq, user, payment_method, gateway) ==
    LET c == OrderProcessor_create_order(cs, h, user)
    IN  IF c.raised # ""
        THEN [raised |-> c.raised, approved |-> FALSE, total |-> 0,
              carts |-> cs, heap |-> h, orders |-> tbl, orderSeq |-> seq]
        ELSE LET o == c.order[1]
                 paid == PaymentProcessor_process_order_payment(h, o, gateway)
                 conf == OrderProcessor_confirm_order(cs, h, user)
                 summary == SummaryOf(conf.heap[o.items], paid.total_amount)
                 ins == Database_insert_order(tbl, seq, user.user_id,
                                              paid.total_amount, payment_method,
                                              summary)
             IN  IF paid.approved
                 THEN [raised |-> "", approved |-> TRUE,
                       total |-> paid.total_amount,
                       carts |-> conf.carts, heap |-> conf.heap,
                       orders |-> ins.orders, orderSeq |-> ins.orderSeq]
                 ELSE [raised |-> "Payment failed.", approved |-> FALSE,
                       total |-> paid.total_amount,
                       carts |-> conf.carts, heap |-> conf.heap,
                       orders |-> tbl, orderSeq |-> seq]

\* The POST branch of checkout (lines 340-355) for the User object `user`,
\* with the gateway the handler hands to PaymentProcessor: what the handler
\* flashes or raises, and the Cart and the orders table it leaves.
checkout_post(cs, h, tbl, seq, user, payment_method, gateway) ==
    LET c == OrderProcessor_create_order(cs, h, user)
    IN  IF c.raised # ""
        THEN [raised |-> c.raised, approved |-> FALSE, total |-> 0,
              carts |-> cs, heap |-> h, orders |-> tbl, orderSeq |-> seq]
        ELSE LET o == c.order[1]
                 paid == PaymentProcessor_process_order_payment(h, o, gateway)
             IN  IF paid.approved
                 THEN LET conf == OrderProcessor_confirm_order(cs, h, user)
                          summary == SummaryOf(conf.heap[o.items], paid.total_amount)
                          ins == Database_insert_order(tbl, seq, user.user_id,
                                                       paid.total_amount, payment_method,
                                                       summary)
                      IN  [raised |-> "", approved |-> TRUE,
                           total |-> paid.total_amount,
                           carts |-> conf.carts, heap |-> conf.heap,
                           orders |-> ins.orders, orderSeq |-> ins.orderSeq]
                 ELSE [raised |-> "Payment failed.", approved |-> FALSE,
                       total |-> paid.total_amount,
                       carts |-> cs, heap |-> h, orders |-> tbl, orderSeq |-> seq]

\* /checkout with any payment gateway in place of the one line 342 builds.
checkout_with(http_method, payment_method, gateway) ==
    /\ Tick
    /\ IF ~LoggedIn
       THEN /\ last' = [Call("checkout") EXCEPT !.raised = "Please log in first."]
            /\ UNCHANGED << users, userSeq, orders, orderSeq, session, Cart_instance,
                            carts, heap, userObjs, order, atCreate, addedSum, lastAdder,
                            thread >>
       ELSE LET u == SessionUser
            IN  /\ Cart_instance' = u.instance
                /\ userObjs' = userObjs \cup {u.user}
                /\ IF http_method = "POST"
                   THEN LET r == checkout_post(u.carts, u.heap, orders, orderSeq,
                                               u.user, payment_method, gateway)
                        IN  /\ carts' = r.carts
                            /\ heap' = Collect(r.heap, r.carts, order)
                            /\ orders' = r.orders
                            /\ orderSeq' = r.orderSeq
                            /\ addedSum' = IF r.approved
                                           THEN [n \in ProductNames |-> 0]
                                           ELSE addedSum
                            /\ last' = [Call("checkout") EXCEPT
                                           !.raised = r.raised, !.approved = r.approved,
                                           !.total = r.total,
                                           !.user_id = u.user.user_id]
                   ELSE /\ carts' = u.carts
                        /\ heap' = u.heap
                        /\ last' = [Call("checkout") EXCEPT
                                       !.raised = "GET", !.user_id = u.user.user_id]
                        /\ UNCHANGED << orders, orderSeq, addedSum >>
                /\ UNCHANGED << users, userSeq, session, order, atCreate, lastAdder,
                                thread >>

\* GET or POST /checkout
checkout(http_method, payment_method) ==
    checkout_with(http_method, payment_method, "MockPaymentGateway")

\* GET /orders
order_history ==
    /\ Tick
    /\ /\ IF ~LoggedIn
          THEN last' = [Call("order_history") EXCEPT !.raised = "Please log in first."]
          ELSE LET user == Database_fetch_user(users, session[1].username)[1]
               IN  last' = [Call("order_history") EXCEPT
                               !.user_id = user.id,
                               !.total = Len(Database_fetch_orders_by_user_id(orders, user.id))]
       /\ UNCHANGED << users, userSeq, orders, orderSeq, session, Cart_instance, carts,
                       heap, userObjs, order, atCreate, addedSum, lastAdder, thread >>

\* --------------------------------------------------------- specifications
HttpMethods == {"GET", "POST"}
FormQuantityTexts == {"-1", "0", "1", "2", "many"}

\* The requests a browser can send.
Next ==
    \/ \E username \in Usernames, password \in RegisterPasswords :
           register(username, password)
    \/ \E username \in Usernames, password \in LoginPasswords :
           login(username, password)
    \/ logout
    \/ \E product_name \in FormProductNames, quantity \in FormQuantityTexts :
           add_to_cart(product_name, quantity)
    \/ view_cart
    \/ \E http_method \in HttpMethods, payment_method \in PaymentMethods :
           checkout(http_method, payment_method)
    \/ order_history

Spec == Init /\ [][Next]_vars

\* ------------------------------------------- calls on the services directly
NextCalls ==
    \/ \E username \in Usernames, password \in RegisterPasswords :
           Call_register_user(username, password)
    \/ \E username \in Usernames, password \in LoginPasswords :
           Call_login(username, password)
    \/ \E user \in userObjs, name \in CallProductNames, quantity \in Quantities :
           Call_add_item(user, Catalog_get_product(name)[1], quantity)
    \/ \E user \in userObjs, name \in CallProductNames :
           Call_remove_item(user, Catalog_get_product(name)[1])
    \/ \E user \in userObjs : Call_clear(user)
    \/ \E user \in userObjs : Call_create_order(user)
    \/ \E payment_method \in PaymentMethods, gateway \in Gateways :
           Call_process_order_payment(payment_method, gateway)
    \/ \E user \in userObjs : Call_confirm_order(user)
    \/ \E user_id \in OrderUserIds, total_amount \in OrderTotals,
          payment_method \in PaymentMethods :
           Call_insert_order(user_id, total_amount, payment_method, << >>)

SpecCalls == Init /\ [][NextCalls]_vars

\* ------------------------------- the requests, with a gateway that may decline
checkout_any(http_method, payment_method, gateway) ==
    checkout_with(http_method, payment_method, gateway)

NextAnyGateway ==
    \/ Next
    \/ \E http_method \in HttpMethods, payment_method \in PaymentMethods,
          gateway \in Gateways :
           checkout_any(http_method, payment_method, gateway)

SpecAnyGateway == Init /\ [][NextAnyGateway]_vars

\* ------------------------------------- register_user on concurrent threads
\* Line 96: the existence check.
register_user_check(t, username, password) ==
    /\ thread[t].pc = "idle"
    /\ IF Database_fetch_user(users, username) # << >>
       THEN thread' = [thread EXCEPT ![t] =
                [pc |-> "idle", username |-> username, password |-> password,
                 raised |-> "User already exists."]]
       ELSE thread' = [thread EXCEPT ![t] =
                [pc |-> "insert", username |-> username, password |-> password,
                 raised |-> ""]]
    /\ UNCHANGED << users, userSeq, orders, orderSeq, session, Cart_instance, carts,
                    heap, userObjs, order, last, atCreate, addedSum, lastAdder,
                    steps >>

\* Line 98: the insert.
register_user_insert(t) ==
    /\ thread[t].pc = "insert"
    /\ LET r == Database_insert_user(users, userSeq, thread[t].username,
                                     thread[t].password)
       IN  /\ users' = r.users
           /\ userSeq' = r.userSeq
           /\ thread' = [thread EXCEPT
                            ![t].pc = IF r.raised = "" THEN "fetch" ELSE "idle",
                            ![t].raised = r.raised]
    /\ UNCHANGED << orders, orderSeq, session, Cart_instance, carts, heap, userObjs,
                    order, last, atCreate, addedSum, lastAdder, steps >>

\* Lines 99-102: the row is read back and the User built.
register_user_return(t) ==
    /\ thread[t].pc = "fetch"
    /\ LET u == User(Cart_instance, carts, heap,
                     Database_fetch_user(users, thread[t].username)[1])
       IN  /\ Cart_instance' = u.instance
           /\ carts' = u.carts
           /\ heap' = u.heap
           /\ userObjs' = userObjs \cup {u.user}
    /\ thread' = [thread EXCEPT ![t].pc = "idle"]
    /\ UNCHANGED << users, userSeq, orders, orderSeq, session, order, last,
                    atCreate, addedSum, lastAdder, steps >>

NextThreads ==
    \/ \E t \in Threads, username \in Usernames, password \in RegisterPasswords :
           register_user_check(t, username, password)
    \/ \E t \in Threads : register_user_insert(t)
    \/ \E t \in Threads : register_user_return(t)

SpecThreads == Init /\ [][NextThreads]_vars

\* ================================================================= claims
\* The lines of the process's Cart (none while no Cart has been built).
CartLines ==
    IF Cart_instance = 0 THEN EmptyDict ELSE ItemsOf(carts, heap, Cart_instance)

\* A dict's lines as (product name, quantity) pairs.
Lines(d) == [i \in 1..Len(d) |-> << d[i].key, d[i].quantity >>]

\* The lines of d for product name k.
LinesFor(d, k) == SelectSeq(Lines(d), LAMBDA l : l[1] = k)

\* C1: the total process_order_payment computes for an Order equals the sum
\* of price x quantity over the cart lines as they were when create_order
\* returned that Order, whatever add_item, remove_item or clear calls were
\* made on the Cart in between.
C1_TotalIsOfTheLinesAtCreateOrder ==
    last.op = "process_order_payment" => last.total = TotalOf(atCreate)

\* C4: create_order raises "Cart is empty." and changes neither the Cart nor
\* the store whenever the Cart has no lines; whenever it has a line the call
\* succeeds and the Order's lines (names and quantities) are the Cart's lines
\* at the call.
C4_CreateOrder ==
    [][ last'.op = "create_order" =>
          IF CartLines = EmptyDict
          THEN /\ last'.raised = "Cart is empty."
               /\ UNCHANGED << users, userSeq, orders, orderSeq, Cart_instance,
                               carts, heap, order >>
          ELSE /\ last'.raised = ""
               /\ order' # << >>
               /\ order'[1].user.user_id = last'.user_id
               /\ Lines(heap'[order'[1].items]) = Lines(CartLines)
               /\ UNCHANGED << users, userSeq, orders, orderSeq >> ]_vars

C4_Witness ==
    /\ last.op = "create_order"
    /\ last.raised = ""
    /\ order # << >>
    /\ Lines(heap[order[1].items]) = << << "Laptop", 2 >>, << "Shirt", 1 >> >>

\* C5: after add_item calls with the same product, with no remove_item or
\* clear in between, the Cart holds exactly one line for that product name,
\* its quantity is the sum of the quantities passed, and an add_item call
\* leaves the lines of the other products as they were.
C5_AddItemSums ==
    /\ [](\A n \in ProductNames :
            IF n \in Keys(CartLines)
            THEN /\ Cardinality(Entries(CartLines, n)) = 1
                 /\ QuantityOf(CartLines, n) = addedSum[n]
            ELSE addedSum[n] = 0)
    /\ [][ last'.op = "add_item" =>
             /\ Cardinality(Entries(CartLines', last'.name)) = 1
             /\ QuantityOf(CartLines', last'.name)
                    = QuantityOf(CartLines, last'.name) + last'.qty
             /\ \A n \in ProductNames \ {last'.name} :
                    LinesFor(CartLines', n) = LinesFor(CartLines, n) ]_vars

C5_Witness ==
    /\ last.op = "add_item"
    /\ last.name = "Laptop"
    /\ last.qty = 2
    /\ Lines(CartLines) = << << "Laptop", 3 >>, << "Shirt", 1 >> >>
    /\ addedSum["Laptop"] = 3

\* C6: every line in the Cart has quantity >= 1, whatever integer quantity
\* the add_to_cart form carries.
C6_QuantitiesArePositive ==
    \A c \in DOMAIN carts :
        \A i \in 1..Len(ItemsOf(carts, heap, c)) :
            ItemsOf(carts, heap, c)[i].quantity >= 1

\* C9: every row of the orders table has a user_id that is the id of a row
\* of the users table.
C9_OrdersReferenceUsers ==
    \A i \in 1..Len(orders) :
        \E j \in 1..Len(users) : users[j].id = orders[i].user_id

\* C2: after a checkout whose payment is approved, the Cart is empty and the
\* orders table holds exactly one more row than before, whose total_amount
\* is the total process_order_payment computed for the order.
C2_ApprovedCheckout ==
    [][ last'.op = "checkout" /\ last'.approved =>
          /\ CartLines' = EmptyDict
          /\ Len(orders') = Len(orders) + 1
          /\ SubSeq(orders', 1, Len(orders)) = orders
          /\ last'.total = TotalOf(CartLines)
          /\ orders'[Len(orders')].total_amount = last'.total ]_vars

C2_Witness ==
    /\ last.op = "checkout"
    /\ last.approved
    /\ last.total = 2430
    /\ CartLines = EmptyDict
    /\ Len(orders) = 1
    /\ orders[1].total_amount = 2430
    /\ orders[1].summary = << << 2, "Laptop", 1200 >>, << 1, "Shirt", 30 >>,
                              << "Total Amount", 2430 >> >>

\* C3: when the payment gateway declines during checkout, the Cart's lines
\* are the same after the checkout as before it and no row is inserted in
\* the orders table.
C3_DeclinedCheckout ==
    [][ last'.op = "checkout" /\ last'.raised = "Payment failed." =>
          /\ CartLines' = CartLines
          /\ orders' = orders
          /\ orderSeq' = orderSeq ]_vars

C3_Witness ==
    /\ last.op = "checkout"
    /\ last.raised = "Payment failed."
    /\ Lines(CartLines) = << << "Laptop", 2 >>, << "Shirt", 1 >> >>
    /\ orders = << >>

\* C7: register_user with a username that has a users row raises "User
\* already exists." and leaves the users table as it was; with a username
\* that has none it inserts exactly one row and returns a User whose id is
\* the id the store gave that row, which no other row has.
C7_RegisterUser ==
    [][ last'.op = "register_user" =>
          IF \E i \in 1..Len(users) : users[i].username = last'.username
          THEN /\ last'.raised = "User already exists."
               /\ users' = users
          ELSE /\ last'.raised = ""
               /\ Len(users') = Len(users) + 1
               /\ SubSeq(users', 1, Len(users)) = users
               /\ users'[Len(users')].username = last'.username
               /\ users'[Len(users')].id = last'.user_id
               /\ \A i \in 1..Len(users) : users[i].id # last'.user_id
               /\ \E u \in userObjs' :
                      u.user_id = last'.user_id /\ u.username = last'.username ]_vars

C7_Witness ==
    /\ last.op = "register_user"
    /\ last.raised = ""
    /\ Len(users) = 2
    /\ last.user_id = users[2].id
    /\ users[1].id # users[2].id

\* C8: under every interleaving of concurrent register_user calls, the users
\* table never holds two rows with the same username.
C8_UsernamesUnique ==
    \A i, j \in 1..Len(users) :
        users[i].username = users[j].username => i = j

\* Two threads passed the existence check for one username and the insert of
\* the second was rejected.
C8_Witness ==
    \E t \in Threads :
        /\ thread[t].raised = "IntegrityError"
        /\ \E i \in 1..Len(users) : users[i].username = thread[t].username

\* C10: at most one Cart exists and every User object holds it: a line added
\* for one user is in the cart of every User object, and the next approved
\* checkout, whoever makes it, orders all the lines of that Cart.
C10_OneCartForAll ==
    /\ [](/\ Cardinality(DOMAIN carts) <= 1
          /\ \A u \in userObjs : u.cart = Cart_instance)
    /\ [][ last'.op = "add_to_cart" /\ last'.raised = "" =>
             \A u \in userObjs' :
                 last'.name \in Keys(ItemsOf(carts', heap', u.cart)) ]_vars
    /\ [][ last'.op = "checkout" /\ last'.approved =>
             LET row == orders'[Len(orders')]
             IN  /\ row.user_id = last'.user_id
                 /\ [i \in 1..(Len(row.summary) - 1) |->
                        << row.summary[i][2], row.summary[i][1] >>]
                      = Lines(CartLines) ]_vars

\* A user checks out a cart whose last line was added for another user.
C10_Witness ==
    /\ last.op = "checkout"
    /\ last.approved
    /\ lastAdder # 0
    /\ lastAdder # last.user_id
    /\ Cardinality({ u.user_id : u \in userObjs }) = 2

====
